---- MODULE Spec2Model ----
(***************************************************************************)
(* nya_interview: the question-tree engine of src/nya_interview/_base.py   *)
(* as a call-stack machine.  One frame per active Python call              *)
(* (Interview._ask, QuestionABC._ask_with_validation, Int._ask,            *)
(* Dynamic._ask, PostConvert._ask, Tuple._ask); the renderer               *)
(* (rich.prompt.Prompt.ask) is the only source of nondeterminism: every    *)
(* read yields a line of the scenario's alphabet, KeyboardInterrupt or     *)
(* EOFError, and once MaxReads reads were made the input has run out and   *)
(* every read raises EOFError.  Between asks the caller may register       *)
(* further questions on the root Interview with add_questions.             *)
(***************************************************************************)
EXTENDS Integers, Sequences, FiniteSets, TLC

VARIABLES
    scen,              \* which question tree was constructed
    questions,         \* Interview.questions of every Interview: name -> question
    adds,              \* number of add_questions calls made after construction
    stack,             \* the Python call stack, innermost frame last
    mode,              \* "idle" | "run" | "return" | "raise"
    reg,               \* the value being returned / the exception in flight
    is_skipped,        \* QuestionABC.is_skipped of every question object
    _answers,          \* Interview._answers of every question object
    answers_id,        \* identity of the dict object _answers refers to, 0 for None
    dicts,             \* number of answers dicts created so far
    handed,            \* the mappings the root ask() handed back to its caller: the
                       \*   dict object, its content when handed back and its content now
    parent_interview,  \* Interview.parent_interview of every question object
    out,               \* what print_label printed during the current ask
    prompts,           \* the renderer calls of the current ask: question, input,
                       \*   and the Tuple loops active at the call
    accepted,          \* the answers _ask_with_validation returned (current ask)
    calls,             \* the _ask calls of the Dynamic questions, their factory calls
                       \*   and the products they invoked, over all asks
    reads,             \* number of renderer reads so far
    eofs,              \* number of renderer reads made after the input ran out
    exhausted_at,      \* the program state at each of those reads, with its root ask
    asks,              \* number of root ask() calls so far
    status,            \* outcome of the last root ask()
    result,            \* the mapping the last root ask() returned
    last               \* the step just taken and what it decided

vars == <<scen, questions, adds, stack, mode, reg, is_skipped, _answers, answers_id, dicts, handed,
          parent_interview, out, prompts, accepted, calls, reads, eofs, exhausted_at, asks, status, result, last>>

----------------------------------------------------------------------------
(* Bounds of the exploration *)

MaxReads == 5
MaxAsks == 2
MaxAdds == 2
MaxEofs == 2

(* Program constants *)

MaxItemsDefault == 2147483647

----------------------------------------------------------------------------
(* Python values, tagged by type so that only like is compared with like *)

None == [t |-> "none", v |-> 0]
StrV(s) == [t |-> "str", v |-> s]
IntV(i) == [t |-> "int", v |-> i]
TupV(items) == [t |-> "tuple", v |-> items]
DictV(pairs) == [t |-> "dict", v |-> pairs]
Exc(kind, cause) == [t |-> "exc", v |-> kind, e |-> cause]

NoDict == [t |-> "nodict", v |-> 0]

PyEq(a, b) == a.t = b.t /\ a.v = b.v

\* bool(x)
Truthy(a) ==
    CASE a.t = "none" -> FALSE
      [] a.t = "int" -> a.v # 0
      [] a.t = "str" -> a.v # ""
      [] a.t = "tuple" -> a.v # <<>>
      [] a.t = "dict" -> a.v # <<>>
      [] OTHER -> TRUE

\* int(s): the lines that parse, and what they parse to
IntOf == [s \in {"0", "3", "5", "7"} |->
            CASE s = "0" -> 0 [] s = "3" -> 3 [] s = "5" -> 5 [] s = "7" -> 7]

StrIsIntParsable(s) == s \in DOMAIN IntOf

\* dict operations on an insertion-ordered sequence of [k, v] pairs
DictKeys(d) == [i \in 1..Len(d) |-> d[i].k]
DictHas(d, name) == \E i \in 1..Len(d) : d[i].k = name
DictGet(d, name) ==
    IF DictHas(d, name)
      THEN d[CHOOSE i \in 1..Len(d) : d[i].k = name].v
      ELSE None
DictSet_Prepend(d, name, val) ==
    IF DictHas(d, name)
      THEN [i \in 1..Len(d) |-> IF d[i].k = name THEN [k |-> name, v |-> val] ELSE d[i]]
      ELSE <<[k |-> name, v |-> val]>> \o d
DictSet(d, name, val) ==
    IF DictHas(d, name)
      THEN [i \in 1..Len(d) |-> IF d[i].k = name THEN [k |-> name, v |-> val] ELSE d[i]]
      ELSE Append(d, [k |-> name, v |-> val])

----------------------------------------------------------------------------
(* Transformations and question objects *)

KeepIf(pred, name) == [type |-> "KeepIf", pred |-> pred, name |-> name, msg |-> "None"]
ValidIf(pred, msg) == [type |-> "ValidIf", pred |-> pred, name |-> "", msg |-> msg]

NoMsg == "<None>"

Q(kind) ==
    [kind |-> kind, transformations |-> <<>>, names |-> <<>>, questions |-> <<>>,
     sub |-> 0, fresh |-> FALSE, key |-> "", text |-> "", skip |-> FALSE,
     propagate_skip |-> TRUE,
     end_condition |-> "never", end_on_ctrl_d |-> TRUE, end_on_ctrl_c |-> FALSE,
     ensure_unique |-> FALSE, min_items |-> 0, max_items |-> MaxItemsDefault]

Question_Str == Q("Str")
Question_Label(text) == [Q("Label") EXCEPT !.text = text]
\* Int.__post_init__ builds str_question = Str(text).with_valid_if(parsable)
Int_str_question ==
    [Question_Str EXCEPT
        !.transformations = <<ValidIf("int_parsable", "Provide a valid integer")>>]
Question_Int(strq) == [Q("Int") EXCEPT !.sub = strq]
Interview(names, qs) == [Q("Interview") EXCEPT !.names = names, !.questions = qs]
Question_Dynamic(make) == [Q("Dynamic") EXCEPT !.sub = make, !.fresh = TRUE]
Question_PostConvert(inner, key) == [Q("PostConvert") EXCEPT !.sub = inner, !.key = key]
Question_Tuple(item) == [Q("Tuple") EXCEPT !.sub = item, !.fresh = TRUE]
\* a PostConvert whose post_converter is lambda x: x
IdentityConverter == "<lambda x: x>"
\* a question of the caller's own whose _ask is
\*   return self.invoke_subquestion(self.sub, iv, propagate_skip=False)
Question_Wrapper(subq) == [Q("Wrapper") EXCEPT !.sub = subq, !.propagate_skip = FALSE]
\* QuestionABC.skip(): self.is_skipped = True, on the constructed question
skip(q) == [q EXCEPT !.skip = TRUE]
\* Interview.flatten_to(name): Question__.PostConvert(self, itemgetter(name))
flatten_to(inner, name) == Question_PostConvert(inner, name)
with_transformation(q, t) == [q EXCEPT !.transformations = Append(@, t)]
\* with_keep_if(lambda iv, _: predicate(iv.answers.get(name))), predicate = bool
with_keep_if_previous_answer(q, name) ==
    with_transformation(q, KeepIf("previous_answer", name))

----------------------------------------------------------------------------
(* The question trees explored.  Object 1 is always the root Interview;     *)
(* the other objects are referred to by their index.                        *)

Scenarios == {"declared", "keepif", "tuple_min", "tuple_unique", "flatten", "nested",
              "register", "previous", "roundtrip", "propagate",
              "tuple_max", "rooted"}

Root == 1

Tree(s) ==
    CASE s = "declared" ->
           \* Interview(a=Int.with_valid_if_positive().with_valid_if_not_zero()
           \*                .with_valid_if(lambda iv, q, a: a < 7, msg="Value must be below 7"),
           \*           b=Str.with_valid_if(lambda iv, q, a: a != "x", msg=None),
           \*           c=Dynamic(lambda iv: Int))
           << Interview(<<"a", "b", "c">>, <<2, 4, 5>>),
              with_transformation(
                with_transformation(
                  with_transformation(Question_Int(3),
                      ValidIf("positive", "Value must be positive")),
                  ValidIf("not_zero", "Value must not be zero")),
                ValidIf("lt7", "Value must be below 7")),
              Int_str_question,
              with_transformation(Question_Str, ValidIf("not_x", NoMsg)),
              Question_Dynamic(6),
              Question_Int(7),
              Int_str_question >>
      [] s = "keepif" ->
           \* Interview(name1=Str.with_keep_if(lambda iv, q: 1 == 2), name2=Label,
           \*           string=Str.with_valid_if_not_empty_answer())
           << Interview(<<"name1", "name2", "string">>, <<2, 3, 4>>),
              with_transformation(Question_Str, KeepIf("false", "")),
              Question_Label("2"),
              with_transformation(Question_Str,
                  ValidIf("not_empty", "Provide a non-empty answer")) >>
      [] s = "tuple_min" ->
           \* Interview(t=Tuple(lambda t: Int, end_condition=lambda x: x == 0, min_items=2))
           << Interview(<<"t">>, <<2>>),
              [Question_Tuple(3) EXCEPT !.end_condition = "eq0", !.min_items = 2],
              Question_Int(4),
              Int_str_question >>
      [] s = "tuple_unique" ->
           \* Interview(t=Tuple(lambda t: Int, end_condition=lambda x: x == 0,
           \*                   ensure_unique=True))
           << Interview(<<"t">>, <<2>>),
              [Question_Tuple(3) EXCEPT !.end_condition = "eq0", !.ensure_unique = TRUE],
              Question_Int(4),
              Int_str_question >>
      [] s = "flatten" ->
           \* Interview(favorite_numbers=Interview(label=Label, tup=Tuple(lambda t: Int))
           \*                                .flatten_to("tup"), lvl=Int)
           << Interview(<<"favorite_numbers", "lvl">>, <<2, 8>>),
              Question_PostConvert(3, "tup"),
              Interview(<<"label", "tup">>, <<4, 5>>),
              Question_Label("Enter your favorite numbers"),
              Question_Tuple(6),
              Question_Int(7),
              Int_str_question,
              Question_Int(9),
              Int_str_question >>
      [] s = "nested" ->
           \* Interview(outer=Tuple(lambda t: Interview(n=Str, tup=Tuple(lambda t: Int)),
           \*                       end_on_ctrl_d=False, end_on_ctrl_c=True), z=Str)
           << Interview(<<"outer", "z">>, <<2, 8>>),
              [Question_Tuple(3) EXCEPT !.end_on_ctrl_d = FALSE, !.end_on_ctrl_c = TRUE],
              Interview(<<"n", "tup">>, <<4, 5>>),
              Question_Str,
              Question_Tuple(6),
              Question_Int(7),
              Int_str_question,
              Question_Str >>
      [] s = "register" ->
           \* iv = Interview(a=Str); objects 3 and 4 are questions constructed for
           \* later iv.add_questions(...) calls
           << Interview(<<"a">>, <<2>>),
              Question_Str,
              Question_Str,
              Question_Label("c") >>
      [] s = "previous" ->
           \* Interview(l=Label, e=Str.with_keep_if_previous_answer("y"), y=Str,
           \*           d=Dynamic(lambda iv: Str(default=iv.answers["y"])),
           \*           s=Str.with_keep_if_previous_answer("y"),
           \*           m=Str.with_keep_if_previous_answer("l"),
           \*           n=Str.with_keep_if_previous_answer("zz"))
           << Interview(<<"l", "e", "y", "d", "s", "m", "n">>, <<2, 3, 4, 5, 7, 8, 9>>),
              Question_Label("l"),
              with_keep_if_previous_answer(Question_Str, "y"),
              Question_Str,
              Question_Dynamic(6),
              Question_Str,
              with_keep_if_previous_answer(Question_Str, "y"),
              with_keep_if_previous_answer(Question_Str, "l"),
              with_keep_if_previous_answer(Question_Str, "zz") >>
      [] s = "roundtrip" ->
           \* Interview(direct=Interview(label=Label, n=Str, m=Int),
           \*           flat=Interview(label=Label, n=Str, m=Int).flatten_to("m"))
           << Interview(<<"direct", "flat">>, <<2, 7>>),
              Interview(<<"label", "n", "m">>, <<3, 4, 5>>),
              Question_Label("Label"),
              Question_Str,
              Question_Int(6),
              Int_str_question,
              flatten_to(8, "m"),
              Interview(<<"label", "n", "m">>, <<9, 10, 11>>),
              Question_Label("Label"),
              Question_Str,
              Question_Int(12),
              Int_str_question >>
      [] s = "propagate" ->
           \* z = Int; z.str_question.skip()
           \* Interview(p=PostConvert(Dynamic(lambda iv: Tuple(
           \*                 lambda t: Dynamic(lambda iv: Label), max_items=1)),
           \*               lambda x: x),
           \*           w=Wrapper(Label), z=z)
           << Interview(<<"p", "w", "z">>, <<2, 7, 9>>),
              Question_PostConvert(3, IdentityConverter),
              Question_Dynamic(4),
              [Question_Tuple(5) EXCEPT !.max_items = 1],
              Question_Dynamic(6),
              Question_Label("item"),
              Question_Wrapper(8),
              Question_Label("w"),
              Question_Int(10),
              skip(Int_str_question) >>
      [] s = "tuple_max" ->
           \* Interview(t=Tuple(lambda t: Int, end_condition=lambda x: x == 0,
           \*                   min_items=1, max_items=2),
           \*           u=Tuple(lambda t: Int, max_items=0),
           \*           v=Tuple(lambda t: Int, min_items=2, max_items=1))
           << Interview(<<"t", "u", "v">>, <<2, 5, 8>>),
              [Question_Tuple(3) EXCEPT !.end_condition = "eq0", !.min_items = 1,
                                        !.max_items = 2],
              Question_Int(4),
              Int_str_question,
              [Question_Tuple(6) EXCEPT !.max_items = 0],
              Question_Int(7),
              Int_str_question,
              [Question_Tuple(9) EXCEPT !.min_items = 2, !.max_items = 1],
              Question_Int(10),
              Int_str_question >>
      [] s = "rooted" ->
           \* Interview(a=Str,
           \*           sub=Interview(b=Str).with_valid_if(lambda iv, q, a: a["b"] != "x",
           \*                                              msg="Sub rejected"),
           \*           gone=Interview(c=Str).with_keep_if(lambda iv, q: False))
           \*   .with_valid_if(lambda iv, q, a: False, msg="Root rejected")
           \*   .with_keep_if(lambda iv, q: False)
           << with_transformation(
                with_transformation(Interview(<<"a", "sub", "gone">>, <<2, 3, 5>>),
                    ValidIf("never", "Root rejected")),
                KeepIf("false", "")),
              Question_Str,
              with_transformation(Interview(<<"b">>, <<4>>),
                  ValidIf("b_not_x", "Sub rejected")),
              Question_Str,
              with_transformation(Interview(<<"c">>, <<6>>), KeepIf("false", "")),
              Question_Str >>

\* the keyword arguments of the add_questions calls made after construction
Batches(s) ==
    CASE s = "register" ->
           { << [k |-> "b", v |-> 3] >>,
             << [k |-> "c", v |-> 4], [k |-> "a", v |-> 3] >>,
             << [k |-> "c", v |-> 4], [k |-> "b", v |-> 3] >> }
      [] OTHER -> {}

\* the lines the renderer can return in each scenario
Lines(s) ==
    CASE s = "declared" -> {"0", "3", "7", "x"}
      [] s = "keepif" -> {"", "3"}
      [] s = "tuple_min" -> {"0", "3"}
      [] s = "tuple_unique" -> {"0", "5", "7"}
      [] s = "flatten" -> {"3", "x"}
      [] s = "nested" -> {"3"}
      [] s = "register" -> {"3"}
      [] s = "previous" -> {"", "3"}
      [] s = "roundtrip" -> {"3", "x"}
      [] s = "propagate" -> {"3", "x"}
      [] s = "tuple_max" -> {"0", "3"}
      [] s = "rooted" -> {"3", "x"}

Aborts == {"KeyboardInterrupt", "EOFError"}

Objects == DOMAIN Tree(scen)

\* question object n as it is now: as constructed, with the questions registered so far
Node(n) ==
    [Tree(scen)[n] EXCEPT !.names = [i \in 1..Len(questions[n]) |-> questions[n][i].k],
                          !.questions = [i \in 1..Len(questions[n]) |-> questions[n][i].v]]

\* the objects a factory builds when it builds object n
RECURSIVE Subtree(_)
Subtree(n) ==
    LET q == Node(n)
        kids == {q.questions[i] : i \in 1..Len(q.questions)}
                  \cup (IF q.sub = 0 THEN {} ELSE {q.sub})
    IN  {n} \cup UNION {Subtree(k) : k \in kids}

----------------------------------------------------------------------------
(* Call stack *)

Frame(fn, q, iv) == [fn |-> fn, q |-> q, iv |-> iv, pc |-> "start", idx |-> 1,
                     lst |-> <<>>, rejected |-> 0, printed |-> 0]

Top == stack[Len(stack)]
Popped == SubSeq(stack, 1, Len(stack) - 1)
Replaced(f) == [stack EXCEPT ![Len(stack)] = f]
Running(fn, pc) == stack # <<>> /\ mode = "run" /\ Top.fn = fn /\ Top.pc = pc
Returned(fn, pc) == stack # <<>> /\ mode = "return" /\ Top.fn = fn /\ Top.pc = pc

\* what the step just taken was and what it decided
Ev(act, q, a) == [act |-> act, q |-> q, a |-> a, round |-> <<>>, rejected |-> 0,
                  printed |-> 0, lst |-> <<>>, nout |-> Len(out),
                  skipped |-> IF q \in Objects THEN is_skipped[q] ELSE FALSE]

\* the Tuple questions whose loop is active, outermost first
RECURSIVE ActiveTuples(_)
ActiveTuples(stk) ==
    IF stk = <<>> THEN <<>>
    ELSE ActiveTuples(SubSeq(stk, 1, Len(stk) - 1))
         \o (IF stk[Len(stk)].fn = "_ask" /\ Node(stk[Len(stk)].q).kind = "Tuple"
               THEN <<stk[Len(stk)].q>> ELSE <<>>)

Prompted(q, inp) == Append(prompts, [q |-> q, inp |-> inp, tuples |-> ActiveTuples(stack)])

PrintLabel(q, msg) == Append(out, [q |-> q, msg |-> msg])

----------------------------------------------------------------------------
(* Transformations *)

\* the predicate a KeepIf was built with, evaluated on (iv, q)
KeepIfPredicate(t, iv) ==
    CASE t.pred = "false" -> FALSE
      [] t.pred = "true" -> TRUE
      [] t.pred = "previous_answer" -> Truthy(DictGet(_answers[iv].v, t.name))

Transform_NoSkip(t, iv, skipped) == skipped
\* transformation.transform(iv, q): the is_skipped of q afterwards
Transform(t, iv, skipped) ==
    IF t.type = "KeepIf" /\ ~KeepIfPredicate(t, iv) THEN TRUE ELSE skipped

\* for transformation in question.transformations.copy(): transform
RECURSIVE TransformAll(_, _, _, _)
TransformAll(ts, i, iv, skipped) ==
    IF i > Len(ts) THEN skipped
    ELSE TransformAll(ts, i + 1, iv, Transform(ts[i], iv, skipped))

\* the predicate a ValidIf was built with, evaluated on the answer
ValidIfPredicate(pred, a) ==
    CASE pred = "int_parsable" -> a.t = "str" /\ StrIsIntParsable(a.v)
      [] pred = "not_zero" -> a.v # 0
      [] pred = "lt7" -> a.v < 7
      [] pred = "positive" -> a.v > 0
      [] pred = "not_x" -> a.v # "x"
      [] pred = "not_empty" -> Truthy(a)
      [] pred = "never" -> FALSE
      [] pred = "b_not_x" -> DictGet(a.v, "b") # StrV("x")

\* transformation.validate(iv, q, answer)
Validate(t, a) == IF t.type = "ValidIf" THEN ValidIfPredicate(t.pred, a) ELSE TRUE

\* transformation.validate__invalid_message(iv, q, answer)
InvalidMessage(t) == IF t.type = "ValidIf" THEN t.msg ELSE "Invalid value, try again"

RECURSIVE ValidationRound_NoShortCircuit(_, _, _)
ValidationRound_NoShortCircuit(ts, i, a) ==
    IF i > Len(ts) THEN <<>>
    ELSE <<[i |-> i, ok |-> Validate(ts[i], a)]>>
         \o ValidationRound_NoShortCircuit(ts, i + 1, a)

\* all(key(trans) for trans in self.transformations): the predicates evaluated,
\* in order, each with its verdict; the scan stops after the first False
RECURSIVE ValidationRound(_, _, _)
ValidationRound(ts, i, a) ==
    IF i > Len(ts) THEN <<>>
    ELSE IF Validate(ts[i], a)
           THEN <<[i |-> i, ok |-> TRUE]>> \o ValidationRound(ts, i + 1, a)
           ELSE <<[i |-> i, ok |-> FALSE]>>

Accepted_FirstOnly(round) == round = <<>> \/ round[1].ok
Accepted(round) == \A j \in 1..Len(round) : round[j].ok

\* the messages key() prints during one round
RECURSIVE RoundMessages(_, _, _)
RoundMessages(ts, round, j) ==
    IF j > Len(round) THEN <<>>
    ELSE (IF ~round[j].ok /\ InvalidMessage(ts[round[j].i]) # NoMsg
            THEN <<InvalidMessage(ts[round[j].i])>> ELSE <<>>)
         \o RoundMessages(ts, round, j + 1)

PropagateSkip_Never(q, subq) == is_skipped
\* if propagate_skip and subq.is_skipped: self.is_skipped = True
PropagateSkip(q, subq) ==
    [is_skipped EXCEPT ![q] = @ \/ (Node(q).propagate_skip /\ is_skipped[subq])]

\* a factory building a new object graph: every object in it starts out as constructed
Built(f, S, init) == [n \in DOMAIN f |-> IF n \in S THEN init ELSE f[n]]

\* is_skipped once the objects S are built: False (the field's default) unless
\* skip() was called on the object where it was constructed
BuiltSkipped(S) == [n \in Objects |-> IF n \in S THEN Node(n).skip ELSE is_skipped[n]]

----------------------------------------------------------------------------
(* Interview *)

\* Interview.answers: the dict while the Interview is being asked, else RuntimeError
answers(n) == IF _answers[n] = NoDict THEN Exc("RuntimeError", "") ELSE _answers[n]

\* a write to dict object id is seen through every reference to that object
WriteThrough(views, id, val) ==
    [i \in 1..Len(views) |-> IF views[i].id = id THEN [views[i] EXCEPT !.v = val]
                             ELSE views[i]]

Teardown_ClearInPlace(q) == [id |-> answers_id[q], v |-> DictV(<<>>)]
\* finally: self._answers = None  (the attribute is rebound, the dict is not touched)
Teardown(q) == [id |-> 0, v |-> NoDict]

\* Interview.KeyOccupiedError(keys=occupied_keys, interview=self): its message
\* formats {interview!r}, Interview.__repr__ reads self.answers, and that raises
\* RuntimeError in place of the error being built unless the Interview is being asked
KeyOccupiedError(iv) ==
    IF answers(iv).t = "exc" THEN answers(iv) ELSE Exc("KeyOccupiedError", "")

\* occupied_keys = {k for k in questions if k in self.questions}
OccupiedKeys(qs, batch) == {batch[i].k : i \in {j \in 1..Len(batch) : DictHas(qs, batch[j].k)}}

\* self.questions.update(questions)
RECURSIVE DictUpdate(_, _)
DictUpdate(qs, batch) ==
    IF batch = <<>> THEN qs
    ELSE DictUpdate(DictSet(qs, batch[1].k, batch[1].v), Tail(batch))

\* Interview.__init__: self.questions = {}; self.add_questions(**questions)
Init ==
    /\ scen \in Scenarios
    /\ questions = [n \in Objects |->
                       DictUpdate(<<>>, [i \in 1..Len(Tree(scen)[n].names) |->
                                           [k |-> Tree(scen)[n].names[i],
                                            v |-> Tree(scen)[n].questions[i]]])]
    /\ adds = 0
    /\ stack = <<>>
    /\ mode = "idle"
    /\ reg = None
    /\ is_skipped = [n \in Objects |-> Tree(scen)[n].skip]
    /\ _answers = [n \in Objects |-> NoDict]
    /\ answers_id = [n \in Objects |-> 0]
    /\ dicts = 0
    /\ handed = <<>>
    /\ parent_interview = [n \in Objects |-> 0]
    /\ out = <<>>
    /\ prompts = <<>>
    /\ accepted = <<>>
    /\ calls = <<>>
    /\ reads = 0
    /\ eofs = 0
    /\ exhausted_at = <<>>
    /\ asks = 0
    /\ status = "idle"
    /\ result = NoDict
    /\ last = Ev("init", 0, None)

\* Interview.add_questions(**batch) on the root Interview, between asks
AddQuestions ==
    /\ stack = <<>> /\ mode = "idle" /\ adds < MaxAdds
    /\ adds' = adds + 1
    /\ \E batch \in Batches(scen) :
          IF OccupiedKeys(questions[Root], batch) # {}
            THEN /\ questions' = questions
                 /\ last' = [Ev("AddQuestions", Root, KeyOccupiedError(Root)) EXCEPT
                                !.round = batch, !.lst = questions[Root]]
            ELSE /\ questions' = [questions EXCEPT ![Root] = DictUpdate(@, batch)]
                 /\ last' = [Ev("AddQuestions", Root, None) EXCEPT
                                !.round = batch, !.lst = questions[Root]]
    /\ UNCHANGED <<scen, stack, mode, reg, is_skipped, _answers, answers_id, dicts, handed,
                   parent_interview, out, prompts, accepted, reads, asks, status, result, calls, eofs, exhausted_at>>

RootCall_Validated == "_ask_with_validation"
\* Interview.ask calls self._ask, not self._ask_with_validation
RootCall == "Interview._ask"

\* Interview.ask: return self._ask(None)
Ask ==
    /\ stack = <<>> /\ mode = "idle" /\ asks < MaxAsks
    /\ stack' = <<Frame(RootCall, Root, 0)>>
    /\ mode' = "run"
    /\ asks' = asks + 1
    /\ status' = "running"
    /\ result' = NoDict
    /\ out' = <<>>
    /\ prompts' = <<>>
    /\ accepted' = <<>>
    /\ last' = Ev("Ask", Root, None)
    /\ UNCHANGED <<scen, reg, is_skipped, _answers, parent_interview, reads, answers_id, dicts, handed, questions, adds, calls, eofs, exhausted_at>>

\* Interview._ask: self.parent_interview = parent_interview; self._answers = {}
InterviewStart ==
    /\ Running("Interview._ask", "start")
    /\ parent_interview' = [parent_interview EXCEPT ![Top.q] = Top.iv]
    /\ _answers' = [_answers EXCEPT ![Top.q] = DictV(<<>>)]
    /\ dicts' = dicts + 1
    /\ answers_id' = [answers_id EXCEPT ![Top.q] = dicts + 1]
    /\ stack' = Replaced([Top EXCEPT !.pc = "loop"])
    /\ last' = Ev("InterviewStart", Top.q, None)
    /\ UNCHANGED <<scen, mode, reg, is_skipped, out, prompts, accepted, reads, asks, status,
                   result, handed, questions, adds, calls, eofs, exhausted_at>>

\* Interview._ask, one child: apply its transformations, then skip it or ask it
InterviewLoop ==
    /\ Running("Interview._ask", "loop")
    /\ Top.idx <= Len(Node(Top.q).questions)
    /\ LET question == Node(Top.q).questions[Top.idx]
           skipped == TransformAll(Node(question).transformations, 1, Top.q,
                                   is_skipped[question])
       IN  /\ is_skipped' = [is_skipped EXCEPT ![question] = skipped]
           /\ stack' = IF skipped
                         THEN Replaced([Top EXCEPT !.idx = @ + 1])
                         ELSE Append(Replaced([Top EXCEPT !.pc = "asked"]),
                                     Frame("_ask_with_validation", question, Top.q))
           /\ last' = [Ev("InterviewLoop", question, None) EXCEPT !.rejected =
                          IF skipped THEN 1 ELSE 0]
    /\ UNCHANGED <<scen, mode, reg, _answers, parent_interview, out, prompts, accepted, reads,
                   asks, status, result, answers_id, dicts, handed, questions, adds, calls, eofs, exhausted_at>>

Omitted_Never(question) == FALSE
\* after the child was asked: if question.is_skipped: continue
Omitted(question) == is_skipped[question]

\* Interview._ask, after the child was asked: record the answer unless it is skipped
InterviewRecord ==
    /\ Returned("Interview._ask", "asked")
    /\ LET question == Node(Top.q).questions[Top.idx]
           name == Node(Top.q).names[Top.idx]
           recorded == DictV(DictSet(_answers[Top.q].v, name, reg))
       IN  /\ _answers' = IF Omitted(question) THEN _answers
                          ELSE [_answers EXCEPT ![Top.q] = recorded]
           /\ handed' = IF Omitted(question) THEN handed
                        ELSE WriteThrough(handed, answers_id[Top.q], recorded)
           /\ last' = Ev("InterviewRecord", question, reg)
    /\ stack' = Replaced([Top EXCEPT !.idx = @ + 1, !.pc = "loop"])
    /\ mode' = "run"
    /\ UNCHANGED <<scen, reg, is_skipped, parent_interview, out, prompts, accepted, reads, asks,
                   status, result, answers_id, dicts, questions, adds, calls, eofs, exhausted_at>>

\* Interview._ask, after the loop: try: return self._answers
\*                                 finally: self._answers = None; self.parent_interview = None
InterviewReturn ==
    /\ Running("Interview._ask", "loop")
    /\ Top.idx > Len(Node(Top.q).questions)
    /\ LET value == _answers[Top.q]
           after == Teardown(Top.q)
           kept == IF Popped = <<>>
                     THEN Append(handed, [id |-> answers_id[Top.q], orig |-> value,
                                          v |-> value])
                     ELSE handed
       IN  /\ reg' = value
           /\ _answers' = [_answers EXCEPT ![Top.q] = after.v]
           /\ answers_id' = [answers_id EXCEPT ![Top.q] = after.id]
           /\ handed' = WriteThrough(kept, after.id, after.v)
           /\ result' = IF Popped = <<>> THEN value ELSE result
           /\ last' = Ev("InterviewReturn", Top.q, value)
    /\ parent_interview' = [parent_interview EXCEPT ![Top.q] = 0]
    /\ stack' = Popped
    /\ mode' = IF Popped = <<>> THEN "idle" ELSE "return"
    /\ status' = IF Popped = <<>> THEN "returned" ELSE status
    /\ UNCHANGED <<scen, is_skipped, out, prompts, accepted, reads, asks, dicts, questions, adds, calls, eofs, exhausted_at>>

----------------------------------------------------------------------------
(* QuestionABC._ask_with_validation and the leaf questions *)

\* except (KeyboardInterrupt, EOFError) as e: raise iv.UserExitException(e) from e
UserExitException(e) == Exc("UserExit", e)

\* Str._ask under _ask_with_validation: the renderer returns a line, or raises and
\* the raise leaves _ask_with_validation as UserExitException
StrAsk ==
    /\ Running("_ask_with_validation", "start")
    /\ Node(Top.q).kind = "Str"
    /\ reads < MaxReads
    /\ reads' = reads + 1
    /\ \/ \E line \in Lines(scen) :
            /\ prompts' = Prompted(Top.q, line)
            /\ reg' = StrV(line)
            /\ mode' = "return"
            /\ stack' = Replaced([Top EXCEPT !.pc = "asked"])
            /\ last' = Ev("StrAsk", Top.q, StrV(line))
       \/ \E e \in Aborts :
            /\ prompts' = Prompted(Top.q, e)
            /\ reg' = UserExitException(e)
            /\ mode' = "raise"
            /\ stack' = Popped
            /\ last' = Ev("StrAsk", Top.q, UserExitException(e))
    /\ UNCHANGED <<scen, is_skipped, _answers, parent_interview, out, accepted, asks, status, result, answers_id, dicts, handed, questions, adds, calls, eofs, exhausted_at>>

\* what the program goes on from at a read: the call stack and the objects' fields
ProgramState == <<stack, is_skipped, _answers, answers_id, parent_interview, questions>>

\* Str._ask under _ask_with_validation when the input has run out after MaxReads
\* reads: the renderer raises EOFError, now and at every later read
StrAskExhausted ==
    /\ Running("_ask_with_validation", "start")
    /\ Node(Top.q).kind = "Str"
    /\ reads = MaxReads /\ eofs < MaxEofs
    /\ eofs' = eofs + 1
    /\ exhausted_at' = Append(exhausted_at, [run |-> asks, state |-> ProgramState])
    /\ prompts' = Prompted(Top.q, "EOFError")
    /\ reg' = UserExitException("EOFError")
    /\ mode' = "raise"
    /\ stack' = Popped
    /\ last' = Ev("StrAsk", Top.q, UserExitException("EOFError"))
    /\ UNCHANGED <<scen, is_skipped, _answers, parent_interview, out, accepted, asks, status,
                   result, answers_id, dicts, handed, questions, adds, calls, reads>>

\* Label._ask under _ask_with_validation: print the text, mark the label skipped
LabelAsk ==
    /\ Running("_ask_with_validation", "start")
    /\ Node(Top.q).kind = "Label"
    /\ out' = PrintLabel(Top.q, Node(Top.q).text)
    /\ is_skipped' = [is_skipped EXCEPT ![Top.q] = TRUE]
    /\ reg' = None
    /\ mode' = "return"
    /\ stack' = Replaced([Top EXCEPT !.pc = "asked"])
    /\ last' = Ev("LabelAsk", Top.q, None)
    /\ UNCHANGED <<scen, _answers, parent_interview, prompts, accepted, reads, asks, status, result, answers_id, dicts, handed, questions, adds, calls, eofs, exhausted_at>>

\* an entry of calls: Dynamic question q was asked, called its factory, or invoked
\* the product numbered `product`, in the current root ask
Call(ev, q, product) == [ev |-> ev, q |-> q, product |-> product, run |-> asks]

\* the number of questions the factory of Dynamic question q has made so far
Products(q) == Cardinality({i \in 1..Len(calls) : calls[i].q = q /\ calls[i].ev = "make"})

MakeQuestion_Cached(q) == IF Products(q) = 0 THEN 1 ELSE Products(q)
\* self.make_question(iv): every call makes a new question; the products of one
\* Dynamic are numbered in the order they are made
MakeQuestion(q) == Products(q) + 1

\* answer = self._ask(iv) for the questions whose _ask calls further questions
AskCall ==
    /\ Running("_ask_with_validation", "start")
    /\ Node(Top.q).kind \in {"Interview", "Int", "Dynamic", "PostConvert", "Tuple", "Wrapper"}
    /\ stack' = Append(Replaced([Top EXCEPT !.pc = "asked"]),
                       Frame(IF Node(Top.q).kind = "Interview" THEN "Interview._ask"
                             ELSE "_ask", Top.q, Top.iv))
    /\ calls' = IF Node(Top.q).kind = "Dynamic"
                   THEN Append(calls, Call("ask", Top.q, 0))
                   ELSE calls
    /\ last' = Ev("AskCall", Top.q, None)
    /\ UNCHANGED <<scen, mode, reg, is_skipped, _answers, parent_interview, out, prompts, accepted,
                   reads, asks, status, result, answers_id, dicts, handed, questions, adds, eofs, exhausted_at>>

\* while not all(key(trans) for trans in self.transformations): re-ask;  return answer
ValidateAnswer ==
    /\ Returned("_ask_with_validation", "asked")
    /\ LET ts == Node(Top.q).transformations
           round == ValidationRound(ts, 1, reg)
           msgs == RoundMessages(ts, round, 1)
           f == [Top EXCEPT !.rejected = @ + (IF Accepted(round) THEN 0 ELSE 1),
                            !.printed = @ + Len(msgs)]
       IN  /\ out' = out \o [j \in 1..Len(msgs) |-> [q |-> Top.q, msg |-> msgs[j]]]
           /\ stack' = IF Accepted(round) THEN Popped
                       ELSE Replaced([f EXCEPT !.pc = "start"])
           /\ mode' = IF Accepted(round) THEN "return" ELSE "run"
           /\ accepted' = IF Accepted(round)
                            THEN Append(accepted, [q |-> Top.q, a |-> reg])
                            ELSE accepted
           /\ last' = [Ev("ValidateAnswer", Top.q, reg) EXCEPT
                          !.round = round, !.rejected = f.rejected, !.printed = f.printed]
    /\ UNCHANGED <<scen, reg, is_skipped, _answers, parent_interview, prompts, reads,
                   asks, status, result, answers_id, dicts, handed, questions, adds, calls, eofs, exhausted_at>>

----------------------------------------------------------------------------
(* Int, Dynamic, PostConvert: invoke_subquestion and convert *)

\* self.invoke_subquestion(subq, iv): subq._ask_with_validation(iv)
InvokeSubquestion ==
    /\ Running("_ask", "start")
    /\ Node(Top.q).kind \in {"Int", "PostConvert", "Wrapper"}
    /\ stack' = Append(Replaced([Top EXCEPT !.pc = "invoked"]),
                       Frame("_ask_with_validation", Node(Top.q).sub, Top.iv))
    /\ last' = Ev("InvokeSubquestion", Top.q, None)
    /\ UNCHANGED <<scen, mode, reg, is_skipped, _answers, parent_interview, out, prompts, accepted,
                   reads, asks, status, result, answers_id, dicts, handed, questions, adds, calls, eofs, exhausted_at>>

\* Dynamic._ask: self.invoke_subquestion(self.make_question(iv), iv)
DynamicAsk ==
    /\ Running("_ask", "start")
    /\ Node(Top.q).kind = "Dynamic"
    /\ LET product == MakeQuestion(Top.q)
           called == product > Products(Top.q)
           made == IF called THEN Subtree(Node(Top.q).sub) ELSE {}
       IN  /\ is_skipped' = BuiltSkipped(made)
           /\ _answers' = Built(_answers, made, NoDict)
           /\ answers_id' = Built(answers_id, made, 0)
           /\ parent_interview' = Built(parent_interview, made, 0)
           /\ calls' = calls \o (IF called THEN <<Call("make", Top.q, product)>> ELSE <<>>)
                             \o <<Call("invoke", Top.q, product)>>
    /\ stack' = Append(Replaced([Top EXCEPT !.pc = "invoked"]),
                       Frame("_ask_with_validation", Node(Top.q).sub, Top.iv))
    /\ last' = Ev("DynamicAsk", Top.q, answers(Top.iv))
    /\ UNCHANGED <<scen, mode, reg, out, prompts, accepted, reads, asks, status, result,
                   dicts, handed, questions, adds, eofs, exhausted_at>>

Convert_FirstValue(q, ans) ==
    CASE Node(q).kind = "Int" ->
           IF ans.t = "str" /\ StrIsIntParsable(ans.v) THEN IntV(IntOf[ans.v])
           ELSE Exc("ValueError", "")
      [] Node(q).kind = "PostConvert" ->
           IF Node(q).key = IdentityConverter THEN ans
           ELSE IF ans.t = "dict" /\ ans.v # <<>> THEN ans.v[1].v
           ELSE Exc("KeyError", "")
      [] OTHER -> ans
\* the value _ask makes of the sub-question's answer: int(ans), itemgetter(name)(ans)
Convert(q, ans) ==
    CASE Node(q).kind = "Int" ->
           IF ans.t = "str" /\ StrIsIntParsable(ans.v) THEN IntV(IntOf[ans.v])
           ELSE Exc("ValueError", "")
      [] Node(q).kind = "PostConvert" ->
           IF Node(q).key = IdentityConverter THEN ans
           ELSE IF ans.t = "dict" /\ DictHas(ans.v, Node(q).key)
                  THEN DictGet(ans.v, Node(q).key)
           ELSE Exc("KeyError", "")
      [] OTHER -> ans

\* invoke_subquestion returned: propagate the skip, convert, return
SubquestionReturn ==
    /\ Returned("_ask", "invoked")
    /\ Node(Top.q).kind \in {"Int", "Dynamic", "PostConvert", "Wrapper"}
    /\ is_skipped' = PropagateSkip(Top.q, Node(Top.q).sub)
    /\ reg' = Convert(Top.q, reg)
    /\ mode' = IF Convert(Top.q, reg).t = "exc" THEN "raise" ELSE "return"
    /\ stack' = Popped
    /\ last' = Ev("SubquestionReturn", Top.q, Convert(Top.q, reg))
    /\ UNCHANGED <<scen, _answers, parent_interview, out, prompts, accepted, reads, asks, status,
                   result, answers_id, dicts, handed, questions, adds, calls, eofs, exhausted_at>>

----------------------------------------------------------------------------
(* Tuple *)

\* self.end_condition(item)
EndCondition(q, item) ==
    CASE Node(q).end_condition = "never" -> FALSE
      [] Node(q).end_condition = "eq0" -> PyEq(item, IntV(0))

TooFewItems_OffByOne(q, lst) == Len(lst) + 1 < Node(q).min_items
TooFewItems_Never(q, lst) == FALSE
\* len(lst) < self.min_items
TooFewItems(q, lst) == Len(lst) < Node(q).min_items

NotUnique_LastOnly(q, item, lst) ==
    Node(q).ensure_unique /\ lst # <<>> /\ PyEq(lst[Len(lst)], item)
\* self.ensure_unique and item in lst
NotUnique(q, item, lst) ==
    Node(q).ensure_unique /\ \E j \in 1..Len(lst) : PyEq(lst[j], item)

EndsOn_AnyAbort(q, exc) == exc.e \in {"EOFError", "KeyboardInterrupt"}
EndsOn_Swapped(q, exc) ==
    \/ Node(q).end_on_ctrl_d /\ exc.e = "KeyboardInterrupt"
    \/ Node(q).end_on_ctrl_c /\ exc.e = "EOFError"
\* (self.end_on_ctrl_d and e.originates_from_ctrl_d())
\*   or (self.end_on_ctrl_c and e.originates_from_ctrl_c())
EndsOn(q, exc) ==
    \/ Node(q).end_on_ctrl_d /\ exc.e = "EOFError"
    \/ Node(q).end_on_ctrl_c /\ exc.e = "KeyboardInterrupt"

TooFewMsg == "You must input at least min_items item(s)"
NotUniqueMsg == "You already provided this item, unique values are requested."

ReachedMax_OffByOne(q, lst) == Len(lst) > Node(q).max_items
\* len(lst) >= self.max_items
ReachedMax(q, lst) == Len(lst) >= Node(q).max_items

\* self.make_item_question(tuple(lst)): what the factory is given
ItemQuestionArgument(lst) == TupV(lst)

\* Tuple._ask, top of the loop: stop at max_items, else build and ask the next item
TupleLoop ==
    /\ Running("_ask", "start")
    /\ Node(Top.q).kind = "Tuple"
    /\ IF ReachedMax(Top.q, Top.lst)
         THEN /\ stack' = Popped
              /\ mode' = "return"
              /\ reg' = TupV(Top.lst)
              /\ last' = [Ev("TupleReturn", Top.q, TupV(Top.lst)) EXCEPT !.lst = Top.lst]
              /\ UNCHANGED <<is_skipped, _answers, answers_id, parent_interview>>
         ELSE /\ LET made == IF Node(Top.q).fresh THEN Subtree(Node(Top.q).sub) ELSE {}
                 IN  /\ is_skipped' = BuiltSkipped(made)
                     /\ _answers' = Built(_answers, made, NoDict)
                     /\ answers_id' = Built(answers_id, made, 0)
                     /\ parent_interview' = Built(parent_interview, made, 0)
              /\ stack' = Append(Replaced([Top EXCEPT !.pc = "invoked"]),
                                 Frame("_ask_with_validation", Node(Top.q).sub, Top.iv))
              /\ last' = [Ev("TupleLoop", Top.q, ItemQuestionArgument(Top.lst)) EXCEPT
                             !.lst = Top.lst]
              /\ UNCHANGED <<mode, reg>>
    /\ UNCHANGED <<scen, out, prompts, accepted, reads, asks, status, result, dicts, handed, questions, adds, calls, eofs, exhausted_at>>

\* Tuple._ask, an item was produced: end condition, uniqueness, append
TupleItem ==
    /\ Returned("_ask", "invoked")
    /\ Node(Top.q).kind = "Tuple"
    /\ is_skipped' = PropagateSkip(Top.q, Node(Top.q).sub)
    /\ LET q == Top.q
           lst == Top.lst
           again == Replaced([Top EXCEPT !.pc = "start"])
       IN  CASE EndCondition(q, reg) /\ TooFewItems(q, lst) ->
                  /\ out' = PrintLabel(q, TooFewMsg)
                  /\ stack' = again
                  /\ mode' = "run"
                  /\ reg' = reg
                  /\ last' = [Ev("TupleTooFew", q, reg) EXCEPT !.lst = lst]
             [] EndCondition(q, reg) /\ ~TooFewItems(q, lst) ->
                  /\ out' = out
                  /\ stack' = Popped
                  /\ mode' = "return"
                  /\ reg' = TupV(lst)
                  /\ last' = [Ev("TupleEnd", q, reg) EXCEPT !.lst = lst]
             [] ~EndCondition(q, reg) /\ NotUnique(q, reg, lst) ->
                  /\ out' = PrintLabel(q, NotUniqueMsg)
                  /\ stack' = again
                  /\ mode' = "run"
                  /\ reg' = reg
                  /\ last' = [Ev("TupleNotUnique", q, reg) EXCEPT !.lst = lst]
             [] OTHER ->
                  /\ out' = out
                  /\ stack' = Replaced([Top EXCEPT !.pc = "start", !.lst = Append(@, reg)])
                  /\ mode' = "run"
                  /\ reg' = reg
                  /\ last' = [Ev("TupleAppend", q, reg) EXCEPT !.lst = lst]
    /\ UNCHANGED <<scen, _answers, parent_interview, prompts, accepted, reads, asks, status, result, answers_id, dicts, handed, questions, adds, calls, eofs, exhausted_at>>

\* Tuple._ask, except Interview.UserExitException: end the collection, re-prompt, or raise
TupleExcept ==
    /\ stack # <<>> /\ mode = "raise"
    /\ Top.fn = "_ask" /\ Top.pc = "invoked" /\ Node(Top.q).kind = "Tuple"
    /\ reg.v = "UserExit"
    /\ LET q == Top.q
           lst == Top.lst
       IN  CASE EndsOn(q, reg) /\ TooFewItems(q, lst) ->
                  /\ out' = PrintLabel(q, TooFewMsg)
                  /\ stack' = Replaced([Top EXCEPT !.pc = "start"])
                  /\ mode' = "run"
                  /\ reg' = reg
                  /\ last' = [Ev("TupleExceptTooFew", q, reg) EXCEPT !.lst = lst]
             [] EndsOn(q, reg) /\ ~TooFewItems(q, lst) ->
                  /\ out' = out
                  /\ stack' = Popped
                  /\ mode' = "return"
                  /\ reg' = TupV(lst)
                  /\ last' = [Ev("TupleExceptEnd", q, reg) EXCEPT !.lst = lst]
             [] OTHER ->
                  /\ out' = out
                  /\ stack' = Popped
                  /\ mode' = "raise"
                  /\ reg' = reg
                  /\ last' = [Ev("TupleExceptRaise", q, reg) EXCEPT !.lst = lst]
    /\ UNCHANGED <<scen, is_skipped, _answers, parent_interview, prompts, accepted, reads, asks,
                   status, result, answers_id, dicts, handed, questions, adds, calls, eofs, exhausted_at>>

----------------------------------------------------------------------------
(* An exception leaving a call that does not handle it *)

Handles(f, exc) ==
    f.fn = "_ask" /\ f.pc = "invoked" /\ Node(f.q).kind = "Tuple" /\ exc.v = "UserExit"

Unwind ==
    /\ stack # <<>> /\ mode = "raise"
    /\ ~Handles(Top, reg)
    /\ stack' = Popped
    /\ mode' = IF Popped = <<>> THEN "idle" ELSE "raise"
    /\ status' = IF Popped = <<>> THEN "raised" ELSE status
    /\ last' = Ev("Unwind", Top.q, reg)
    /\ UNCHANGED <<scen, reg, is_skipped, _answers, parent_interview, out, prompts, accepted, reads,
                   asks, result, answers_id, dicts, handed, questions, adds, calls, eofs, exhausted_at>>

----------------------------------------------------------------------------

Next ==
    \/ AddQuestions
    \/ Ask
    \/ InterviewStart
    \/ InterviewLoop
    \/ InterviewRecord
    \/ InterviewReturn
    \/ StrAsk
    \/ StrAskExhausted
    \/ LabelAsk
    \/ AskCall
    \/ ValidateAnswer
    \/ InvokeSubquestion
    \/ DynamicAsk
    \/ SubquestionReturn
    \/ TupleLoop
    \/ TupleItem
    \/ TupleExcept
    \/ Unwind

Spec == Init /\ [][Next]_vars

----------------------------------------------------------------------------
(* Properties *)

Inputs == [i \in 1..Len(prompts) |-> prompts[i].inp]
ChildrenOf(iv) == {Node(iv).questions[i] : i \in 1..Len(Node(iv).questions)}
Interviews == {n \in Objects : Node(n).kind = "Interview"}
InProgress(n) == \E i \in 1..Len(stack) : stack[i].fn = "Interview._ask" /\ stack[i].q = n
IsRootChild(e) == e.q \in ChildrenOf(Root)

\* C1: when the root ask() returns and none of the N declared children is skipped,
\* the returned mapping has exactly the N declared names as keys, in declaration
\* order, the i-th key mapped to the answer _ask_with_validation returned for the
\* i-th child, and the children were asked in declaration order; a nested Interview
\* none of whose children is skipped likewise returns its declared names in order.
C1_DeclaredKeysInOrder ==
    /\ (status = "returned" /\ last.act = "InterviewReturn"
          /\ \A c \in ChildrenOf(Root) : ~is_skipped[c]) =>
          LET acc == SelectSeq(accepted, IsRootChild)
          IN  /\ result.t = "dict"
              /\ DictKeys(result.v) = Node(Root).names
              /\ Len(acc) = Len(Node(Root).questions)
              /\ \A i \in 1..Len(acc) :
                    /\ acc[i].q = Node(Root).questions[i]
                    /\ result.v[i].v = acc[i].a
    /\ (last.act = "InterviewReturn" /\ \A c \in ChildrenOf(last.q) : ~is_skipped[c]) =>
          DictKeys(last.a.v) = Node(last.q).names

C1_Witness ==
    /\ scen = "declared" /\ status = "returned"
    /\ Len(result.v) = 3
    /\ \A c \in ChildrenOf(Root) : ~is_skipped[c]
    /\ Len(out) > 0

KeepIfNever(n) ==
    \E i \in 1..Len(Node(n).transformations) :
        /\ Node(n).transformations[i].type = "KeepIf"
        /\ Node(n).transformations[i].pred = "false"

\* C2: a child of an Interview that carries a KeepIf whose predicate is always false
\* is never asked (no call for it is ever on the stack, the renderer is never called
\* for it, no answer of it is ever accepted) and its name is in neither the answers
\* being collected nor the returned mapping.
C2_KeepIfFalseNeverAsked ==
    \A iv \in Interviews : \A i \in 1..Len(Node(iv).questions) :
        LET n == Node(iv).questions[i]
            name == Node(iv).names[i]
        IN  KeepIfNever(n) =>
              /\ \A j \in 1..Len(stack) : stack[j].q # n
              /\ \A j \in 1..Len(prompts) : prompts[j].q # n
              /\ \A j \in 1..Len(accepted) : accepted[j].q # n
              /\ _answers[iv].t = "dict" => ~DictHas(_answers[iv].v, name)
              /\ (iv = Root /\ status = "returned") => ~DictHas(result.v, name)
              /\ (last.act = "InterviewReturn" /\ last.q = iv) => ~DictHas(last.a.v, name)

C2_Witness ==
    /\ scen = "keepif" /\ status = "returned"
    /\ DictKeys(result.v) = <<"string">>
    /\ is_skipped[2]

ValidIfsOf(q) ==
    {i \in 1..Len(Node(q).transformations) : Node(q).transformations[i].type = "ValidIf"}
OnStack(fn, q) == \E i \in 1..Len(stack) : stack[i].fn = fn /\ stack[i].q = q

\* C3: _ask_with_validation is left in two ways only.  It returns the answer it was
\* just given, after a round in which every attached transformation was evaluated
\* and accepted it; or the renderer raised KeyboardInterrupt/EOFError and the call is
\* left at once with UserExitException carrying that cause (no re-ask).  A rejected
\* answer makes the same call ask again and is never returned, and nothing but
\* UserExitException is ever raised.
C3_ValidationExits ==
    /\ (last.act = "ValidateAnswer" /\ mode = "return") =>
          /\ reg = last.a
          /\ Len(last.round) = Len(Node(last.q).transformations)
          /\ \A j \in 1..Len(last.round) : last.round[j].i = j /\ last.round[j].ok
          /\ ~OnStack("_ask_with_validation", last.q)
    /\ (last.act = "ValidateAnswer" /\ \E j \in 1..Len(last.round) : ~last.round[j].ok) =>
          /\ mode = "run"
          /\ Top.fn = "_ask_with_validation" /\ Top.q = last.q /\ Top.pc = "start"
    /\ \A j \in 1..Len(accepted) : \A i \in ValidIfsOf(accepted[j].q) :
          ValidIfPredicate(Node(accepted[j].q).transformations[i].pred, accepted[j].a)
    /\ (last.act = "StrAsk" /\ last.a.t = "exc") =>
          /\ mode = "raise"
          /\ reg = Exc("UserExit", prompts[Len(prompts)].inp)
          /\ prompts[Len(prompts)].inp \in Aborts
          /\ ~OnStack("_ask_with_validation", last.q)
    /\ mode = "raise" => reg.t = "exc" /\ reg.v = "UserExit"
    /\ status = "raised" => reg.t = "exc" /\ reg.v = "UserExit"

C3_Witness ==
    /\ scen = "declared" /\ status = "raised"
    /\ \E j \in 1..Len(accepted) : accepted[j].q = 2
    /\ \E j \in 1..Len(out) : out[j].q = 2

\* C4: every validation round evaluates the transformations in attachment order and
\* stops at the first one that rejects; a rejected attempt prints exactly the message
\* of that transformation when it has one and nothing otherwise, an accepted attempt
\* prints nothing; so a question all of whose messages are non-null has printed
\* exactly k messages after k rejected attempts, also when the answer is returned.
C4_ShortCircuit ==
    last.act = "ValidateAnswer" =>
        LET ts == Node(last.q).transformations
            round == last.round
            n == Len(round)
        IN  /\ \A j \in 1..n : round[j].i = j
            /\ \A j \in 1..(n - 1) : round[j].ok
            /\ n < Len(ts) => ~round[n].ok
            /\ IF n > 0 /\ ~round[n].ok /\ ts[n].msg # NoMsg
                 THEN /\ Len(out) = last.nout + 1
                      /\ out[Len(out)] = [q |-> last.q, msg |-> ts[n].msg]
                 ELSE Len(out) = last.nout
            /\ (\A i \in ValidIfsOf(last.q) : ts[i].msg # NoMsg) =>
                  last.printed = last.rejected
            /\ (\A i \in ValidIfsOf(last.q) : ts[i].msg = NoMsg) => last.printed = 0

C4_Witness ==
    /\ scen = "declared"
    /\ last.act = "ValidateAnswer" /\ last.q = 2 /\ mode = "return"
    /\ last.rejected = 2 /\ last.printed = 2
    /\ out = << [q |-> 2, msg |-> "Value must be positive"],
                [q |-> 2, msg |-> "Value must be below 7"] >>

TupleItemEvents == {"TupleTooFew", "TupleEnd", "TupleNotUnique", "TupleAppend"}
TopIsTupleLoop(q, lst) ==
    /\ mode = "run" /\ stack # <<>>
    /\ Top.fn = "_ask" /\ Top.q = q /\ Top.pc = "start" /\ Top.lst = lst
CountMsg(msg) == Cardinality({j \in 1..Len(out) : out[j].msg = msg})

\* C5 as stated: the Tuple with min_items=2 and end-condition "equals 0", fed [3, 0],
\* terminates at the 0 and returns (3,).
C5_Original ==
    (scen = "tuple_min" /\ Inputs = <<"3", "0">> /\ last.act \in TupleItemEvents) =>
        /\ last.act = "TupleEnd"
        /\ mode = "return"
        /\ reg = TupV(<<IntV(3)>>)

\* C5 amended: the Tuple with min_items=2 and end-condition "equals 0", fed [3, 0],
\* does not terminate at the 0: it keeps (3,) collected, prints one "too few items"
\* message and asks for another item; fed [3, 3, 0] it returns (3, 3); whenever the
\* end-condition makes it return, it returns at least two items.
C5_TooFewContinues ==
    scen = "tuple_min" =>
        /\ (Inputs = <<"3", "0">> /\ last.act \in TupleItemEvents) =>
              /\ last.act = "TupleTooFew"
              /\ TopIsTupleLoop(2, <<IntV(3)>>)
              /\ out = <<[q |-> 2, msg |-> TooFewMsg]>>
        /\ (Inputs = <<"3", "3", "0">> /\ last.act \in TupleItemEvents) =>
              /\ last.act = "TupleEnd"
              /\ mode = "return"
              /\ reg = TupV(<<IntV(3), IntV(3)>>)
        /\ last.act = "TupleEnd" => Len(reg.v) >= 2

C5_Witness ==
    /\ scen = "tuple_min" /\ Inputs = <<"3", "0">>
    /\ last.act = "TupleTooFew"

\* C6: when an item satisfying the end-condition is produced while fewer than
\* min_items items are collected, the Tuple prints exactly one "too few items"
\* message, leaves the collected items as they were and is back at the top of its
\* loop below max_items, so it asks for another item; when at least min_items are
\* collected the item ends the loop and the Tuple returns the items collected before
\* it, printing nothing.
C6_EndConditionBelowMin ==
    (last.act \in TupleItemEvents /\ Node(last.q).end_condition = "eq0"
        /\ last.a = IntV(0)) =>
        IF Len(last.lst) < Node(last.q).min_items
          THEN /\ last.act = "TupleTooFew"
               /\ TopIsTupleLoop(last.q, last.lst)
               /\ Len(last.lst) < Node(last.q).max_items
               /\ Len(out) = last.nout + 1
               /\ out[Len(out)] = [q |-> last.q, msg |-> TooFewMsg]
          ELSE /\ last.act = "TupleEnd"
               /\ mode = "return"
               /\ reg = TupV(last.lst)
               /\ ~OnStack("_ask", last.q)
               /\ Len(out) = last.nout

C6_Witness ==
    /\ scen = "tuple_min"
    /\ last.act = "TupleEnd" /\ Len(last.lst) = 2
    /\ CountMsg(TooFewMsg) = 1

RECURSIVE FirstOccurrences(_)
FirstOccurrences(xs) ==
    IF xs = <<>> THEN <<>>
    ELSE LET r == FirstOccurrences(SubSeq(xs, 1, Len(xs) - 1))
             x == xs[Len(xs)]
         IN  IF \E j \in 1..Len(r) : r[j] = x THEN r ELSE Append(r, x)

\* C7: in a Tuple with ensure_unique an item that is not the end item is appended
\* exactly when no collected item equals it; otherwise the collected items stay as
\* they were and exactly one "not unique" message is printed.  The collected items
\* are therefore pairwise distinct, and when the end item arrives the Tuple returns
\* the first occurrences of the items fed before it, in order, having printed one
\* "not unique" message per repeated item: [5, 5, 7, 0] returns (5, 7) with one
\* message.
C7_EnsureUnique ==
    /\ (last.act \in TupleItemEvents /\ Node(last.q).ensure_unique
          /\ ~(Node(last.q).end_condition = "eq0" /\ last.a = IntV(0))) =>
          IF \E j \in 1..Len(last.lst) : last.lst[j] = last.a
            THEN /\ last.act = "TupleNotUnique"
                 /\ TopIsTupleLoop(last.q, last.lst)
                 /\ Len(out) = last.nout + 1
                 /\ out[Len(out)] = [q |-> last.q, msg |-> NotUniqueMsg]
            ELSE /\ last.act = "TupleAppend"
                 /\ TopIsTupleLoop(last.q, Append(last.lst, last.a))
                 /\ Len(out) = last.nout
    /\ \A i \in 1..Len(stack) :
          (stack[i].fn = "_ask" /\ Node(stack[i].q).kind = "Tuple"
              /\ Node(stack[i].q).ensure_unique) =>
          \A j, k \in 1..Len(stack[i].lst) :
              j # k => stack[i].lst[j] # stack[i].lst[k]
    /\ (scen = "tuple_unique" /\ last.act = "TupleEnd") =>
          LET fed == [j \in 1..(Len(Inputs) - 1) |-> IntV(IntOf[Inputs[j]])]
          IN  /\ reg = TupV(FirstOccurrences(fed))
              /\ CountMsg(NotUniqueMsg) = Len(fed) - Len(reg.v)
    /\ (scen = "tuple_unique" /\ Inputs = <<"5", "5", "7", "0">>
          /\ last.act \in TupleItemEvents) =>
          /\ last.act = "TupleEnd"
          /\ reg = TupV(<<IntV(5), IntV(7)>>)
          /\ CountMsg(NotUniqueMsg) = 1

C7_Witness ==
    /\ scen = "tuple_unique" /\ Inputs = <<"5", "5", "7", "0">>
    /\ last.act = "TupleEnd"
    /\ status = "running"

TupleExceptEvents == {"TupleExceptTooFew", "TupleExceptEnd", "TupleExceptRaise"}
EndFlag(q, e) == IF e = "EOFError" THEN Node(q).end_on_ctrl_d ELSE Node(q).end_on_ctrl_c
\* the innermost of the Tuple loops `tuples` whose flag for abort e is set, 0 if none
AbsorberOf(tuples, e) ==
    LET S == {j \in 1..Len(tuples) : EndFlag(tuples[j], e)}
    IN  IF S = {} THEN 0 ELSE tuples[CHOOSE j \in S : \A k \in S : k <= j]
\* the renderer raised KeyboardInterrupt at call i while a Tuple with
\* end_on_ctrl_c = False was asking an item
SoftInterruptInPlainTuple(i) ==
    /\ prompts[i].inp = "KeyboardInterrupt"
    /\ prompts[i].tuples # <<>>
    /\ ~Node(prompts[i].tuples[Len(prompts[i].tuples)]).end_on_ctrl_c
RootAskAborted ==
    /\ mode \in {"raise", "idle"}
    /\ status \in {"running", "raised"}
    /\ mode = "idle" => status = "raised"
    /\ result = NoDict

\* C8 as stated: a soft interrupt raised while a Tuple with end_on_ctrl_c = False is
\* asking an item propagates to the caller of the root ask(): no question is asked
\* after it and no mapping is returned.
C8_Original ==
    \A i \in 1..Len(prompts) :
        SoftInterruptInPlainTuple(i) => i = Len(prompts) /\ RootAskAborted

\* C8 amended: a soft interrupt raised while a Tuple with end_on_ctrl_c = False is
\* asking an item is never absorbed by that Tuple, which re-raises it unchanged; it
\* propagates out of the enclosing Interviews up to the innermost enclosing Tuple
\* whose end_on_ctrl_c is set, which absorbs it, or, when there is none, up to the
\* caller of the root ask(): then no question is asked after it and no mapping is
\* returned.
C8_SoftInterruptPropagates ==
    /\ (last.act \in {"TupleExceptTooFew", "TupleExceptEnd"}
          /\ last.a.e = "KeyboardInterrupt") =>
          /\ Node(last.q).end_on_ctrl_c
          /\ last.q = AbsorberOf(prompts[Len(prompts)].tuples, "KeyboardInterrupt")
    /\ (last.act = "TupleExceptRaise" /\ last.a.e = "KeyboardInterrupt") =>
          /\ ~Node(last.q).end_on_ctrl_c
          /\ mode = "raise" /\ reg = last.a
          /\ ~OnStack("_ask", last.q)
    /\ \A i \in 1..Len(prompts) :
          SoftInterruptInPlainTuple(i) =>
              LET absorber == AbsorberOf(prompts[i].tuples, "KeyboardInterrupt")
              IN  IF absorber = 0
                    THEN i = Len(prompts) /\ RootAskAborted
                    ELSE (i = Len(prompts) /\ mode = "raise") => OnStack("_ask", absorber)

C8_Witness ==
    /\ scen = "flatten" /\ status = "raised"
    /\ Len(prompts) = 3
    /\ prompts[3].q = 7 /\ SoftInterruptInPlainTuple(3)
    /\ \E j \in 1..Len(accepted) : accepted[j].q = 6

\* C9: a Tuple handles an abort raised while it asks an item by its own flag for that
\* channel only: with the flag set and at least min_items collected it returns the
\* items collected so far, in order, and nothing is raised; with the flag set and
\* fewer items it prints "too few items" and asks again; with the flag unset it
\* re-raises.  With the default flags EOFError inside the Tuple of the nested
\* Interview therefore ends the collection, the root Interview goes on to ask its
\* next child, and the returned mapping holds the items collected before the EOFError.
C9_StreamEndEndsCollection ==
    /\ last.act \in TupleExceptEvents =>
          CASE EndFlag(last.q, last.a.e) /\ Len(last.lst) >= Node(last.q).min_items ->
                 /\ last.act = "TupleExceptEnd"
                 /\ mode = "return"
                 /\ reg = TupV(last.lst)
                 /\ ~OnStack("_ask", last.q)
                 /\ Len(out) = last.nout
            [] EndFlag(last.q, last.a.e) /\ Len(last.lst) < Node(last.q).min_items ->
                 /\ last.act = "TupleExceptTooFew"
                 /\ TopIsTupleLoop(last.q, last.lst)
                 /\ out[Len(out)] = [q |-> last.q, msg |-> TooFewMsg]
            [] OTHER ->
                 /\ last.act = "TupleExceptRaise"
                 /\ mode = "raise"
                 /\ reg = last.a
    /\ scen = "flatten" =>
          /\ \A i \in 1..Len(prompts) :
                (prompts[i].q = 7 /\ prompts[i].inp = "EOFError") =>
                    /\ i < Len(prompts) => prompts[i + 1].q = 9
                    /\ status = "raised" => i < Len(prompts)
                    /\ \A j \in 1..Len(prompts) : (j # i) => prompts[j].inp # "EOFError"
                                                             \/ prompts[j].q # 7
          /\ status = "returned" =>
                LET items == SelectSeq(prompts, LAMBDA p : p.q = 7 /\ p.inp = "3")
                IN  DictGet(result.v, "favorite_numbers") =
                        TupV([j \in 1..Len(items) |-> IntV(3)])

C9_Witness ==
    /\ scen = "flatten" /\ status = "returned"
    /\ Inputs = <<"3", "EOFError", "3">>
    /\ result = DictV(<< [k |-> "favorite_numbers", v |-> TupV(<<IntV(3)>>)],
                         [k |-> "lvl", v |-> IntV(3)] >>)

\* C10: an Interview that a UserExitException has propagated out of is left as it was
\* before it was asked, _answers None and parent_interview None: every Interview
\* once the root ask() has raised, and the Interviews built by a Tuple once that
\* Tuple has absorbed the abort.
C10_NoStateLeftAfterAbort ==
    /\ status = "raised" =>
          \A n \in Interviews : _answers[n] = NoDict /\ parent_interview[n] = 0
    /\ last.act \in {"TupleExceptTooFew", "TupleExceptEnd"} =>
          \A n \in Interviews \cap Subtree(Node(last.q).sub) :
              _answers[n] = NoDict /\ parent_interview[n] = 0

\* the recorded answers of the root's children in the ask that just returned: the
\* accepted answer of every child that was not skipped, under the child's name
RootRecorded ==
    LET acc == SelectSeq(accepted, LAMBDA e : IsRootChild(e) /\ ~is_skipped[e.q])
    IN  [i \in 1..Len(acc) |->
            [k |-> Node(Root).names[CHOOSE j \in 1..Len(Node(Root).questions) :
                                        Node(Root).questions[j] = acc[i].q],
             v |-> acc[i].a]]

\* C11: before the first ask and after every ask() that returns normally, reading
\* the Interview's answers raises RuntimeError and parent_interview is unset, and so
\* it is for a nested Interview whose _ask just returned; the mapping handed back to
\* the caller holds all recorded answers, and every mapping ever handed back still
\* has the content it was handed back with, during and after later asks.
C11_InertOutsideAsk ==
    /\ asks = 0 =>
          \A n \in Interviews : answers(n) = Exc("RuntimeError", "") /\ parent_interview[n] = 0
    /\ status = "returned" =>
          /\ answers(Root) = Exc("RuntimeError", "")
          /\ parent_interview[Root] = 0
          /\ result = DictV(RootRecorded)
          /\ handed # <<>> /\ handed[Len(handed)].v = result
    /\ last.act = "InterviewReturn" =>
          /\ answers(last.q) = Exc("RuntimeError", "")
          /\ parent_interview[last.q] = 0
          /\ reg = last.a
    /\ \A i \in 1..Len(handed) : handed[i].v = handed[i].orig

C11_Witness ==
    /\ status = "returned" /\ asks = 2
    /\ Len(handed) = 2
    /\ handed[1].v.v # <<>>
    /\ handed[1].v # handed[2].v

\* C12: add_questions is all-or-nothing.  If a name of the batch is already
\* registered the call raises KeyOccupiedError and the Interview's questions (names,
\* questions, order) are what they were before the call; otherwise the batch is
\* appended to them in batch order.
C12_AllOrNothing ==
    last.act = "AddQuestions" =>
        LET before == last.lst
            batch == last.round
        IN  IF \E i \in 1..Len(batch) : DictHas(before, batch[i].k)
              THEN /\ last.a = Exc("KeyOccupiedError", "")
                   /\ questions[Root] = before
              ELSE /\ last.a = None
                   /\ questions[Root] = before \o batch

\* C13: when an Interview's _ask has processed all its children none of them is left
\* marked skipped, and on every pass a child is skipped only by a KeepIf of its own
\* whose predicate is false then: a child skipped in an earlier ask is asked again
\* whenever its keep-if predicates hold.
C13_SkipClearedAfterAsk ==
    /\ last.act = "InterviewReturn" => \A c \in ChildrenOf(last.q) : ~is_skipped[c]
    /\ (last.act = "InterviewLoop" /\ last.rejected = 1) =>
          \E i \in 1..Len(Node(last.q).transformations) :
              /\ Node(last.q).transformations[i].type = "KeepIf"
              /\ ~KeepIfPredicate(Node(last.q).transformations[i], Top.q)

Dynamics == {n \in Objects : Node(n).kind = "Dynamic"}
CallsOf(d) == SelectSeq(calls, LAMBDA c : c.q = d)

\* C14: every _ask of a Dynamic question calls its factory exactly once, in the same
\* root ask, and invokes the question that call made; no two factory calls of one
\* Dynamic make the same question, and what is invoked starts out as constructed.
\* When two successive root asks have both asked the Dynamic once, its factory has
\* been called twice, once in each of them.
C14_FactoryOncePerAsk ==
    /\ \A d \in Dynamics :
          LET L == CallsOf(d)
          IN  /\ \A i \in 1..Len(L) :
                    CASE i % 3 = 1 -> L[i].ev = "ask"
                      [] i % 3 = 2 -> L[i].ev = "make" /\ L[i].run = L[i - 1].run
                      [] OTHER -> /\ L[i].ev = "invoke"
                                  /\ L[i].product = L[i - 1].product
                                  /\ L[i].run = L[i - 1].run
              /\ \A i, j \in 1..Len(L) :
                    (i < j /\ L[i].ev = "make" /\ L[j].ev = "make") =>
                        L[i].product # L[j].product
              /\ Len(L) % 3 # 2
              /\ Len(L) % 3 = 1 =>
                    /\ stack # <<>> /\ mode = "run"
                    /\ Top.fn = "_ask" /\ Top.q = d /\ Top.pc = "start"
              /\ (asks = 2 /\ Len(SelectSeq(L, LAMBDA c : c.ev = "ask")) = 2
                    /\ L[1].run = 1 /\ L[Len(L)].run = 2 /\ Len(L) % 3 = 0) =>
                    /\ Products(d) = 2
                    /\ \A r \in 1..2 : \E i \in 1..Len(L) : L[i].ev = "make" /\ L[i].run = r
    /\ last.act = "DynamicAsk" =>
          \A n \in Subtree(Node(last.q).sub) :
              ~is_skipped[n] /\ _answers[n] = NoDict /\ parent_interview[n] = 0

C14_Witness ==
    /\ scen = "previous" /\ status = "returned" /\ asks = 2
    /\ Products(5) = 2
    /\ Len(CallsOf(5)) = 6
    /\ CallsOf(5)[2].run = 1 /\ CallsOf(5)[5].run = 2

\* the answer _ask_with_validation returned last for question q
LastAccepted(q) ==
    accepted[CHOOSE j \in 1..Len(accepted) :
                /\ accepted[j].q = q
                /\ \A k \in (j + 1)..Len(accepted) : accepted[k].q # q].a

\* the answers of the children of iv declared before position i that are not skipped
EarlierAnswers(iv, i) ==
    LET kept == SelectSeq([j \in 1..(i - 1) |-> j],
                          LAMBDA j : ~is_skipped[Node(iv).questions[j]])
    IN  [m \in 1..Len(kept) |-> [k |-> Node(iv).names[kept[m]],
                                 v |-> LastAccepted(Node(iv).questions[kept[m]])]]

\* C15: when the factory of a Dynamic child of an Interview runs, interview.answers
\* is a mapping that holds exactly the answers of the siblings declared before the
\* Dynamic child that are not skipped, in declaration order, and has no entry for
\* the Dynamic child or for a sibling declared after it.
C15_FactorySeesEarlierSiblings ==
    \A iv \in Interviews : \A i \in 1..Len(Node(iv).questions) :
        (last.act = "DynamicAsk" /\ last.q = Node(iv).questions[i] /\ Top.iv = iv) =>
            /\ last.a = DictV(EarlierAnswers(iv, i))
            /\ \A j \in i..Len(Node(iv).questions) : ~DictHas(last.a.v, Node(iv).names[j])

C15_Witness ==
    /\ scen = "previous" /\ last.act = "DynamicAsk" /\ last.q = 5
    /\ last.a = DictV(<<[k |-> "y", v |-> StrV("3")]>>)
    /\ is_skipped[2] /\ is_skipped[3]

\* C16: when the transformations of a child are applied and the name given to
\* with_keep_if_previous_answer is not a key of the enclosing Interview's answers,
\* the keep-if fails: an exception is raised and the child is not just skipped.
C16_MissingNameFails ==
    last.act = "InterviewLoop" =>
        LET iv == IF Top.fn = "Interview._ask" THEN Top.q ELSE Top.iv
            ts == Node(last.q).transformations
        IN  \A i \in 1..Len(ts) :
                (ts[i].type = "KeepIf" /\ ts[i].pred = "previous_answer"
                    /\ ~DictHas(_answers[iv].v, ts[i].name)) =>
                    /\ mode = "raise"
                    /\ reg.t = "exc"
                    /\ last.rejected = 0

\* the renderer calls made for the questions of the object graph rooted at n
PromptsUnder(n) == SelectSeq(prompts, LAMBDA e : e.q \in Subtree(n))
\* what was printed for the questions of the object graph rooted at n
OutUnder(n) == SelectSeq(out, LAMBDA e : e.q \in Subtree(n))
\* in "roundtrip" the flattened Interview (object 8) is a copy of the direct one
\* (object 2): object n of the one corresponds to object n + 6 of the other
Copy(n) == n + 6

\* C17: a PostConvert made by flatten_to(x) whose inner Interview returned a mapping
\* with key x returns exactly the value of that mapping at x.  In "roundtrip", where
\* a newly constructed Interview is asked directly and a newly constructed copy of
\* it through flatten_to("m"), whenever both were given the same inputs the
\* flattened one returned the value the direct one returned at "m", and the same
\* questions were prompted and the same labels printed, in the same order.
C17_FlattenReturnsValueAtKey ==
    /\ (last.act = "SubquestionReturn" /\ Node(last.q).kind = "PostConvert"
          /\ Node(last.q).key # IdentityConverter
          /\ LastAccepted(Node(last.q).sub).t = "dict"
          /\ DictHas(LastAccepted(Node(last.q).sub).v, Node(last.q).key)) =>
          /\ mode = "return"
          /\ reg = DictGet(LastAccepted(Node(last.q).sub).v, Node(last.q).key)
    /\ (scen = "roundtrip" /\ status = "returned" /\ asks = 1
          /\ [i \in 1..Len(PromptsUnder(2)) |-> PromptsUnder(2)[i].inp]
               = [i \in 1..Len(PromptsUnder(7)) |-> PromptsUnder(7)[i].inp]) =>
          /\ DictHas(DictGet(result.v, "direct").v, "m")
          /\ DictGet(result.v, "flat") = DictGet(DictGet(result.v, "direct").v, "m")
          /\ \A i \in 1..Len(PromptsUnder(2)) :
                PromptsUnder(7)[i].q = Copy(PromptsUnder(2)[i].q)
          /\ Len(OutUnder(7)) = Len(OutUnder(2))
          /\ \A i \in 1..Len(OutUnder(2)) :
                /\ OutUnder(7)[i].q = Copy(OutUnder(2)[i].q)
                /\ OutUnder(7)[i].msg = OutUnder(2)[i].msg

C17_Witness ==
    /\ scen = "roundtrip" /\ status = "returned" /\ asks = 1
    /\ Inputs = <<"x", "3", "x", "3">>
    /\ result = DictV(<< [k |-> "direct", v |-> DictV(<< [k |-> "n", v |-> StrV("x")],
                                                         [k |-> "m", v |-> IntV(3)] >>)],
                         [k |-> "flat", v |-> IntV(3)] >>)

\* C18: once the input has run out, so that every further read raises EOFError, the
\* ask in progress terminates after finitely many further prompts.  From a read on
\* exhausted input the program runs deterministically, so it terminates exactly when
\* it never comes to such a read twice in the same program state: the states at the
\* reads made on exhausted input within one root ask are pairwise different.
C18_ExhaustedInputTerminates ==
    \A i, j \in 1..Len(exhausted_at) :
        (i < j /\ exhausted_at[i].run = exhausted_at[j].run) =>
            exhausted_at[i].state # exhausted_at[j].state

\* the name under which Interview iv registered its child c
NameOf(iv, c) ==
    Node(iv).names[CHOOSE j \in 1..Len(Node(iv).questions) : Node(iv).questions[j] = c]

\* C19: when invoke_subquestion returns to a question (Int, Dynamic, PostConvert,
\* Tuple or a question of the caller's own) and the sub-question is marked skipped,
\* the invoking question is marked skipped if it invoked with propagate_skip (the
\* default) and keeps the flag it had if it invoked with propagate_skip=False; a
\* flag is never cleared by it.  A child of an Interview that is marked skipped
\* after it was asked is not recorded, and no skipped child has its name in the
\* mapping the Interview returns: in "propagate" the skip of the Label under
\* Dynamic, Tuple, Dynamic and PostConvert and the skip of the Int's str_question
\* leave only the child that did not propagate.
C19_SkipPropagates ==
    /\ last.act \in {"SubquestionReturn"} \cup TupleItemEvents =>
          IF Node(last.q).propagate_skip /\ is_skipped[Node(last.q).sub]
            THEN is_skipped[last.q]
            ELSE is_skipped[last.q] = last.skipped
    /\ (last.act = "InterviewRecord" /\ is_skipped[last.q]) =>
          ~DictHas(_answers[Top.q].v, NameOf(Top.q, last.q))
    /\ last.act = "InterviewReturn" =>
          \A c \in ChildrenOf(last.q) :
              is_skipped[c] => ~DictHas(last.a.v, NameOf(last.q, c))
    /\ (scen = "propagate" /\ status = "returned") =>
          result = DictV(<<[k |-> "w", v |-> None]>>)

C19_Witness ==
    /\ scen = "propagate" /\ status = "returned" /\ asks = 1
    /\ result = DictV(<<[k |-> "w", v |-> None]>>)
    /\ \A n \in {2, 3, 4, 5, 6, 8, 9, 10} : is_skipped[n]
    /\ ~is_skipped[7]
    /\ Inputs = <<"x", "3">>

TupleReturnEvents == {"TupleReturn", "TupleEnd", "TupleExceptEnd"}

\* C20: a Tuple that returns normally returns at most max_items items, and at least
\* min_items when min_items <= max_items.  A Tuple never holds more than max_items
\* items and has fewer whenever it has built an item question and is asking it, so
\* with max_items = 0 it returns () and nothing is ever asked for it.  The item
\* question is built from the tuple of the items collected so far, and an appended
\* item goes to the end of them, so the k-th item's question is given exactly the
\* k-1 items collected before it.
C20_TupleBounds ==
    /\ last.act \in TupleReturnEvents =>
          /\ mode = "return" /\ reg.t = "tuple"
          /\ Len(reg.v) <= Node(last.q).max_items
          /\ Node(last.q).min_items <= Node(last.q).max_items =>
                Len(reg.v) >= Node(last.q).min_items
    /\ \A i \in 1..Len(stack) :
          (stack[i].fn = "_ask" /\ Node(stack[i].q).kind = "Tuple") =>
              /\ Len(stack[i].lst) <= Node(stack[i].q).max_items
              /\ stack[i].pc = "invoked" => Len(stack[i].lst) < Node(stack[i].q).max_items
    /\ last.act = "TupleLoop" =>
          /\ last.a = TupV(stack[Len(stack) - 1].lst)
          /\ Len(last.a.v) < Node(last.q).max_items
    /\ last.act = "TupleAppend" => TopIsTupleLoop(last.q, Append(last.lst, last.a))
    /\ (last.act = "TupleReturn" /\ Node(last.q).max_items = 0) => reg = TupV(<<>>)
    /\ \A i \in 1..Len(prompts) : \A j \in 1..Len(prompts[i].tuples) :
          Node(prompts[i].tuples[j]).max_items > 0

C20_Witness ==
    /\ scen = "tuple_max" /\ status = "returned"
    /\ Inputs = <<"3", "3", "3">>
    /\ result = DictV(<< [k |-> "t", v |-> TupV(<<IntV(3), IntV(3)>>)],
                         [k |-> "u", v |-> TupV(<<>>)],
                         [k |-> "v", v |-> TupV(<<IntV(3)>>)] >>)

CountAccepted(q) == Cardinality({j \in 1..Len(accepted) : accepted[j].q = q})

\* C21: the root ask() makes one pass over the root Interview's children and never
\* evaluates the root's own transformations.  The root is only ever on the stack as
\* the bottom Interview._ask call, never under _ask_with_validation; no validation
\* round and no transformation step is taken for it, nothing is printed for it, it
\* is never marked skipped, no answer of it is validated, and each of its children
\* is asked at most once in an ask.  So in "rooted", whose root carries a valid-if
\* that always rejects and a keep-if that is always false, ask() still returns the
\* mapping; the Interviews asked as its children do have their transformations
\* applied: the child with the valid-if is asked again until its answer passes and
\* the child with the false keep-if is left out.
C21_RootTransformationsNotApplied ==
    /\ \A i \in 1..Len(stack) :
          stack[i].q = Root => i = 1 /\ stack[i].fn = "Interview._ask"
    /\ last.act \in {"ValidateAnswer", "InterviewLoop", "AskCall"} => last.q # Root
    /\ \A j \in 1..Len(out) : out[j].q # Root
    /\ \A j \in 1..Len(accepted) : accepted[j].q # Root
    /\ ~is_skipped[Root]
    /\ \A c \in ChildrenOf(Root) : CountAccepted(c) <= 1
    /\ (status = "returned" /\ last.act = "InterviewReturn") =>
          /\ result.t = "dict"
          /\ last.q = Root
    /\ (last.act = "ValidateAnswer" /\ Node(last.q).kind = "Interview") =>
          /\ last.round = ValidationRound(Node(last.q).transformations, 1, last.a)
          /\ mode = "return" <=> Accepted(last.round)
    /\ (scen = "rooted" /\ status = "returned") =>
          /\ DictKeys(result.v) = <<"a", "sub">>
          /\ DictGet(DictGet(result.v, "sub").v, "b") # StrV("x")
          /\ is_skipped[5]
          /\ \A j \in 1..Len(out) : out[j] = [q |-> 3, msg |-> "Sub rejected"]

C21_Witness ==
    /\ scen = "rooted" /\ status = "returned" /\ asks = 1
    /\ Inputs = <<"3", "x", "3">>
    /\ out = <<[q |-> 3, msg |-> "Sub rejected"]>>
    /\ result = DictV(<< [k |-> "a", v |-> StrV("3")],
                         [k |-> "sub", v |-> DictV(<<[k |-> "b", v |-> StrV("3")]>>)] >>)

====
